---- MODULE Spec2Model ----
(***************************************************************************)
(* Booking lifecycle engine of the car-sharing backend: BookingService     *)
(* (create / update) over BookingRepository and CarRepository, with the    *)
(* BookingStateTransitionValidator.  Dates are millisecond timestamps,     *)
(* modelled as small naturals; the bookings table is a set of rows.        *)
(***************************************************************************)
EXTENDS Integers, FiniteSets, Sequences, TLC

\* ---- bounds -------------------------------------------------------------
MaxDate == 3
MaxNow == 1
MaxBookings == 2

\* ---- domain -------------------------------------------------------------
Dates == 0..MaxDate

BookingState == {"PENDING", "CONFIRMED", "PICKED_UP", "RETURNED", "CANCELED"}

Users == {1, 2, 3}

\* rows of the cars table: car 1 is owned by user 1, car 2 by user 2
Cars == {[id |-> 1, ownerId |-> 1], [id |-> 2, ownerId |-> 2]}

\* car ids a caller may name; 3 names no car
CarIdInputs == {1, 2, 3}

\* the renter named in create data: user 1, who owns car 1 and not car 2
RenterInputs == {1}

\* states a caller may put into the create data
CreateStateInputs == {"PENDING", "CONFIRMED"}

\* a key of the update payload: absent, present with the value undefined
\* (val = {}), or present with a value (val = {v})
Key(vals) ==
  {[present |-> FALSE, val |-> {}], [present |-> TRUE, val |-> {}]}
    \cup {[present |-> TRUE, val |-> {v}] : v \in vals}

\* Partial<Except<BookingProperties, 'id' | 'carId' | 'renterId'>>
UpdateInputs ==
  [state : Key(BookingState), startDate : Key(Dates), endDate : Key(Dates)]

\* Except<BookingProperties, 'id'>
CreateInputs ==
  [carId : CarIdInputs, renterId : RenterInputs, state : CreateStateInputs,
   startDate : Dates, endDate : Dates]

\* booking ids a caller may name; MaxBookings + 1 is never assigned
BookingIdInputs == 1..(MaxBookings + 1)

\* the requests that may be in flight at once
Procs == {1, 2}

\* the isolation level of the transactions the store opens: PostgreSQL's
\* default, and the level the design names as strong enough
IsolationLevels == {"READ COMMITTED", "SERIALIZABLE"}

\* the columns of the cars table that CarRepository.update writes, by car id
InitialCarRows == [c \in {1, 2} |-> [state |-> "LOCKED", name |-> "Car"]]

VARIABLES bookings, nextId, now, res, tx, isolation, carRows

vars == <<bookings, nextId, now, res, tx, isolation, carRows>>

\* ---- errors -------------------------------------------------------------
\* a thrown error: its class and the fields its constructor stores
Error(name, info) == [name |-> name, info |-> info]

\* no error: the step returned
OK == Error("OK", <<>>)

\* ---- BookingStateTransitionValidator ------------------------------------
\* faulty variant: the table also lets the owner reopen a canceled booking
TRANSITIONS_Reopen ==
  { [from |-> "PENDING",   to |-> "CONFIRMED", allowedRoles |-> {"OWNER"}],
    [from |-> "PENDING",   to |-> "CANCELED",  allowedRoles |-> {"OWNER"}],
    [from |-> "CONFIRMED", to |-> "PICKED_UP", allowedRoles |-> {"RENTER"}],
    [from |-> "PICKED_UP", to |-> "RETURNED",  allowedRoles |-> {"RENTER"}],
    [from |-> "CANCELED",  to |-> "CONFIRMED", allowedRoles |-> {"OWNER"}] }

TRANSITIONS ==
  { [from |-> "PENDING",   to |-> "CONFIRMED", allowedRoles |-> {"OWNER"}],
    [from |-> "PENDING",   to |-> "CANCELED",  allowedRoles |-> {"OWNER"}],
    [from |-> "CONFIRMED", to |-> "PICKED_UP", allowedRoles |-> {"RENTER"}],
    [from |-> "PICKED_UP", to |-> "RETURNED",  allowedRoles |-> {"RENTER"}] }

\* faulty variant: the allowedRoles of the transition found are not consulted
validate_NoRoleCheck(currentState, newState, userRole, bookingId) ==
  IF currentState = newState
  THEN OK
  ELSE IF {t \in TRANSITIONS : t.from = currentState /\ t.to = newState} = {}
       THEN Error("InvalidBookingStateTransitionError",
                  <<bookingId, currentState, newState>>)
       ELSE OK

\* faulty variant: `currentState === newState` does not return early
validate_NoIdentity(currentState, newState, userRole, bookingId) ==
  LET transition ==
        {t \in TRANSITIONS : t.from = currentState /\ t.to = newState}
  IN  IF transition = {} \/ \A t \in transition : userRole \notin t.allowedRoles
      THEN Error("InvalidBookingStateTransitionError",
                 <<bookingId, currentState, newState>>)
      ELSE OK

\* the error validate throws, OK when it returns
validate(currentState, newState, userRole, bookingId) ==
  IF currentState = newState
  THEN OK
  ELSE LET transition ==
             {t \in TRANSITIONS : t.from = currentState /\ t.to = newState}
       IN  IF transition = {} \/ \A t \in transition : userRole \notin t.allowedRoles
           THEN Error("InvalidBookingStateTransitionError",
                      <<bookingId, currentState, newState>>)
           ELSE OK

\* ---- BookingService helpers ---------------------------------------------
\* faulty variant: `startDate < now` in place of `startDate <= now`
validateBookingDates_NowAllowed(startDate, endDate, clock) ==
  IF startDate >= endDate
  THEN Error("InvalidBookingDatesError",
             <<startDate, endDate, "End date must be after start date">>)
  ELSE IF startDate < clock
  THEN Error("InvalidBookingDatesError",
             <<startDate, endDate, "Start date must be in the future">>)
  ELSE OK

\* the error validateBookingDates throws, OK when it returns; clock is the
\* value of `new Date()`
validateBookingDates(startDate, endDate, clock) ==
  IF startDate >= endDate
  THEN Error("InvalidBookingDatesError",
             <<startDate, endDate, "End date must be after start date">>)
  ELSE IF startDate <= clock
  THEN Error("InvalidBookingDatesError",
             <<startDate, endDate, "Start date must be in the future">>)
  ELSE OK

\* CarRepository.find: the rows with that id (empty when there is none)
carFind(carId) == {c \in Cars : c.id = carId}

\* BookingRepository.find
bookingFind(tbl, id) == {b \in tbl : b.id = id}

\* faulty variant: `end_date > $(endDate)`, the wrong bound in the second comparison
findOverlappingBookings_EndMixup(tbl, carId, startDate, endDate, excludeBookingId) ==
  { b \in tbl :
      /\ b.carId = carId
      /\ b.state # "CANCELED"
      /\ b.startDate < endDate
      /\ b.endDate > endDate
      /\ (excludeBookingId # 0 => b.id # excludeBookingId) }

\* faulty variant: the `state != 'CANCELED'` condition is missing
findOverlappingBookings_WithCanceled(tbl, carId, startDate, endDate, excludeBookingId) ==
  { b \in tbl :
      /\ b.carId = carId
      /\ b.startDate < endDate
      /\ b.endDate > startDate
      /\ (excludeBookingId # 0 => b.id # excludeBookingId) }

\* faulty variant: closed intervals, `<=` and `>=`
findOverlappingBookings_Closed(tbl, carId, startDate, endDate, excludeBookingId) ==
  { b \in tbl :
      /\ b.carId = carId
      /\ b.state # "CANCELED"
      /\ b.startDate <= endDate
      /\ b.endDate >= startDate
      /\ (excludeBookingId # 0 => b.id # excludeBookingId) }

\* faulty variant: the `car_id = $(carId)` condition is missing
findOverlappingBookings_AnyCar(tbl, carId, startDate, endDate, excludeBookingId) ==
  { b \in tbl :
      /\ b.state # "CANCELED"
      /\ b.startDate < endDate
      /\ b.endDate > startDate
      /\ (excludeBookingId # 0 => b.id # excludeBookingId) }

\* BookingRepository.findOverlappingBookings; excludeBookingId = 0 stands for
\* an omitted (falsy) argument
findOverlappingBookings(tbl, carId, startDate, endDate, excludeBookingId) ==
  { b \in tbl :
      /\ b.carId = carId
      /\ b.state # "CANCELED"
      /\ b.startDate < endDate
      /\ b.endDate > startDate
      /\ (excludeBookingId # 0 => b.id # excludeBookingId) }

\* CarRepository.get: the error it throws, OK when it returns the car
carGet(carId) ==
  IF carFind(carId) = {} THEN Error("CarNotFoundError", <<carId>>) ELSE OK

\* the error validateCarAvailability throws, OK when it returns
validateCarAvailability(tbl, carId, startDate, endDate, excludeBookingId) ==
  IF carGet(carId) # OK THEN carGet(carId)
  ELSE IF findOverlappingBookings(tbl, carId, startDate, endDate,
                                  excludeBookingId) # {}
       THEN Error("CarNotAvailableError", <<carId, startDate, endDate>>)
  ELSE OK

\* faulty variant: only the renter has access
assertBookingAccess_RenterOnly(booking, car, userId) ==
  IF booking.renterId # userId
  THEN Error("BookingAccessDeniedError", <<booking.id>>)
  ELSE OK

\* faulty variant: nobody is refused
assertBookingAccess_NoCheck(booking, car, userId) == OK

\* the error assertBookingAccess throws, OK when it returns
assertBookingAccess(booking, car, userId) ==
  LET isRenter == booking.renterId = userId
      isOwner == car.ownerId = userId
  IN  IF ~isRenter /\ ~isOwner
      THEN Error("BookingAccessDeniedError", <<booking.id>>)
      ELSE OK

\* ---- BookingRepository writes --------------------------------------------
\* faulty variant: the id given comes from no sequence, it is always 1
insert_ReuseId(tbl, id, properties) ==
  tbl \cup {[id |-> 1, carId |-> properties.carId,
              renterId |-> properties.renterId, state |-> properties.state,
              startDate |-> properties.startDate,
              endDate |-> properties.endDate]}

\* INSERT ... RETURNING *: the serial id comes from the sequence
insert(tbl, id, properties) ==
  tbl \cup {[id |-> id, carId |-> properties.carId,
              renterId |-> properties.renterId, state |-> properties.state,
              startDate |-> properties.startDate,
              endDate |-> properties.endDate]}

\* faulty variant: the UPDATE statement has no WHERE clause
update_NoWhere(tbl, booking) ==
  {[b EXCEPT !.state = CHOOSE x \in booking.state : TRUE,
             !.startDate = CHOOSE x \in booking.startDate : TRUE,
             !.endDate = CHOOSE x \in booking.endDate : TRUE] : b \in tbl}

\* UPDATE bookings SET state, start_date, end_date WHERE id = $(id); the
\* fields of booking are singleton sets here
update(tbl, booking) ==
  {IF b.id = booking.id
   THEN [b EXCEPT !.state = CHOOSE x \in booking.state : TRUE,
                  !.startDate = CHOOSE x \in booking.startDate : TRUE,
                  !.endDate = CHOOSE x \in booking.endDate : TRUE]
   ELSE b : b \in tbl}

\* ---- BookingService.create ----------------------------------------------
\* faulty variant: the state of the input is kept
bookingData_KeepState(data) == data

\* { ...data, state: BookingState.PENDING }
bookingData(data) == [data EXCEPT !.state = "PENDING"]

\* faulty variant: the car is looked up before the dates are validated
createError_CarFirst(tbl, clock, data) ==
  IF carGet(data.carId) # OK THEN carGet(data.carId)
  ELSE IF validateBookingDates(data.startDate, data.endDate, clock) # OK
  THEN validateBookingDates(data.startDate, data.endDate, clock)
  ELSE validateCarAvailability(tbl, data.carId, data.startDate,
                               data.endDate, 0)

\* the error create ends with, OK when it reaches the insert
createError(tbl, clock, data) ==
  LET dates == validateBookingDates(data.startDate, data.endDate, clock)
  IN  IF dates # OK THEN dates
      ELSE validateCarAvailability(tbl, data.carId, data.startDate,
                                   data.endDate, 0)

\* ---- BookingService.update ----------------------------------------------
\* `updates.x` is truthy: the key holds a value (Dates and enum strings are
\* always truthy)
truthy(key) == key.val # {}

\* faulty variant: the dates are validated whatever the payload holds
datesUpdated_Always(updates) == TRUE

\* `updates.startDate || updates.endDate`
datesUpdated(updates) == truthy(updates.startDate) \/ truthy(updates.endDate)

\* faulty variant: the stored value is validated, not the one of the payload
orElse_Stored(key, stored) == {stored}

\* `updates.x || booking.x`
orElse(key, stored) == IF truthy(key) THEN key.val ELSE {stored}

\* one field of { ...booking, ...updates, id }: a present key wins, also when
\* its value is undefined
spread(key, stored) == IF key.present THEN key.val ELSE {stored}

\* faulty variant: the dates are validated before the transition
updateValidate_DatesFirst(booking, clock, id, updates, userId) ==
  IF carGet(booking.carId) # OK THEN carGet(booking.carId)
  ELSE
  LET car == CHOOSE c \in carFind(booking.carId) : TRUE
      isOwner == car.ownerId = userId
      userRole == IF isOwner THEN "OWNER" ELSE "RENTER"
      startDate == CHOOSE d \in orElse(updates.startDate, booking.startDate) : TRUE
      endDate == CHOOSE d \in orElse(updates.endDate, booking.endDate) : TRUE
  IN
  IF assertBookingAccess(booking, car, userId) # OK
  THEN assertBookingAccess(booking, car, userId)
  ELSE IF datesUpdated(updates)
          /\ validateBookingDates(startDate, endDate, clock) # OK
  THEN validateBookingDates(startDate, endDate, clock)
  ELSE IF truthy(updates.state)
  THEN validate(booking.state, CHOOSE s \in updates.state.val : TRUE,
                userRole, id)
  ELSE OK

\* update up to its first await after the booking is read: carRepository.get,
\* assertBookingAccess, the transition check and validateBookingDates; the
\* error thrown, OK when none is
updateValidate(booking, clock, id, updates, userId) ==
  IF carGet(booking.carId) # OK THEN carGet(booking.carId)
  ELSE
  LET car == CHOOSE c \in carFind(booking.carId) : TRUE
      isOwner == car.ownerId = userId
      userRole == IF isOwner THEN "OWNER" ELSE "RENTER"
      startDate == CHOOSE d \in orElse(updates.startDate, booking.startDate) : TRUE
      endDate == CHOOSE d \in orElse(updates.endDate, booking.endDate) : TRUE
  IN
  IF assertBookingAccess(booking, car, userId) # OK
  THEN assertBookingAccess(booking, car, userId)
  ELSE IF truthy(updates.state)
          /\ validate(booking.state, CHOOSE s \in updates.state.val : TRUE,
                      userRole, id) # OK
  THEN validate(booking.state, CHOOSE s \in updates.state.val : TRUE,
                userRole, id)
  ELSE IF datesUpdated(updates)
  THEN validateBookingDates(startDate, endDate, clock)
  ELSE OK

\* faulty variant: excludeBookingId is not passed on
updateAvailability_NoExclude(tbl, booking, id, updates) ==
  IF datesUpdated(updates)
  THEN validateCarAvailability(
         tbl, booking.carId,
         CHOOSE d \in orElse(updates.startDate, booking.startDate) : TRUE,
         CHOOSE d \in orElse(updates.endDate, booking.endDate) : TRUE, 0)
  ELSE OK

\* `if (updates.startDate || updates.endDate)`: the availability check of the
\* effective interval, excluding the booking itself
updateAvailability(tbl, booking, id, updates) ==
  IF datesUpdated(updates)
  THEN validateCarAvailability(
         tbl, booking.carId,
         CHOOSE d \in orElse(updates.startDate, booking.startDate) : TRUE,
         CHOOSE d \in orElse(updates.endDate, booking.endDate) : TRUE, id)
  ELSE OK

\* new Booking({ ...booking, ...updates, id }): validate(this) rejects a state
\* that is not in the enum; the dates carry no validator
newBooking(booking, updates) ==
  IF spread(updates.state, booking.state) = {}
  THEN Error("ValidationError", <<"state">>)
  ELSE OK

\* the fields of the Booking handed to BookingRepository.update
updatedBooking(booking, updates, id) ==
  [id |-> id, carId |-> booking.carId, renterId |-> booking.renterId,
   state |-> spread(updates.state, booking.state),
   startDate |-> spread(updates.startDate, booking.startDate),
   endDate |-> spread(updates.endDate, booking.endDate)]

\* BookingRepository.update before its UPDATE statement: ensureBookingExists,
\* then the parameters, where booking.startDate.toISOString() throws on undefined
repositoryUpdate(tbl, booking) ==
  IF bookingFind(tbl, booking.id) = {}
  THEN Error("BookingNotFoundError", <<booking.id>>)
  ELSE IF booking.startDate = {} \/ booking.endDate = {}
  THEN Error("TypeError", <<"toISOString">>)
  ELSE OK

\* the error update ends with before it writes, OK when it reaches the UPDATE
updateError(tbl, clock, id, updates, userId) ==
  IF bookingFind(tbl, id) = {} THEN Error("BookingNotFoundError", <<id>>)
  ELSE
  LET booking == CHOOSE b \in bookingFind(tbl, id) : TRUE IN
  IF updateValidate(booking, clock, id, updates, userId) # OK
  THEN updateValidate(booking, clock, id, updates, userId)
  ELSE IF updateAvailability(tbl, booking, id, updates) # OK
  THEN updateAvailability(tbl, booking, id, updates)
  ELSE IF newBooking(booking, updates) # OK THEN newBooking(booking, updates)
  ELSE repositoryUpdate(tbl, updatedBooking(booking, updates, id))

\* ---- repository calls made by a service call ------------------------------
\* the repository methods validateCarAvailability calls, in order
availabilityCalls(carId) ==
  IF carGet(carId) # OK THEN <<"carRepository.get">>
  ELSE <<"carRepository.get", "bookingRepository.findOverlappingBookings">>

\* faulty variant: a failed callback is run a second time before the error
\* is given to the caller
createCalls_Retry(tbl, clock, data) ==
  LET once == IF validateBookingDates(data.startDate, data.endDate, clock) # OK
              THEN <<>>
              ELSE availabilityCalls(data.carId)
                     \o (IF createError(tbl, clock, data) = OK
                         THEN <<"bookingRepository.insert">> ELSE <<>>)
  IN IF createError(tbl, clock, data) = OK THEN once ELSE once \o once

\* the repository methods create calls, in order
createCalls(tbl, clock, data) ==
  IF validateBookingDates(data.startDate, data.endDate, clock) # OK THEN <<>>
  ELSE availabilityCalls(data.carId)
         \o (IF createError(tbl, clock, data) = OK
             THEN <<"bookingRepository.insert">> ELSE <<>>)

\* the repository methods update calls, in order
updateCalls(tbl, clock, id, updates, userId) ==
  IF bookingFind(tbl, id) = {} THEN <<"bookingRepository.get">>
  ELSE
  LET booking == CHOOSE b \in bookingFind(tbl, id) : TRUE IN
  <<"bookingRepository.get", "carRepository.get">>
  \o (IF updateValidate(booking, clock, id, updates, userId) # OK THEN <<>>
      ELSE (IF datesUpdated(updates)
            THEN availabilityCalls(booking.carId) ELSE <<>>)
           \o (IF updateAvailability(tbl, booking, id, updates) = OK
                  /\ newBooking(booking, updates) = OK
               THEN <<"bookingRepository.update">> ELSE <<>>))

\* the repository methods get calls, in order
getCalls(tbl, id) ==
  IF bookingFind(tbl, id) = {} THEN <<"bookingRepository.get">>
  ELSE <<"bookingRepository.get", "carRepository.get">>

\* the transactions a service call opens: one call of
\* databaseConnection.transactional, whose handle is numbered 1
transactionsOpened == 1

\* faulty variant: every repository call is given a transaction of its own
handles_Fresh(calls) == [i \in DOMAIN calls |-> i]

\* the transaction handle each repository call of a service call is given:
\* the tx of the one transactional callback
handles(calls) == [i \in DOMAIN calls |-> transactionsOpened]

\* ---- BookingService.get / getAll -----------------------------------------
\* the error get ends with, OK when it returns the booking
getError(tbl, id, userId) ==
  IF bookingFind(tbl, id) = {} THEN Error("BookingNotFoundError", <<id>>)
  ELSE
  LET booking == CHOOSE b \in bookingFind(tbl, id) : TRUE IN
  IF carGet(booking.carId) # OK THEN carGet(booking.carId)
  ELSE assertBookingAccess(booking,
                           CHOOSE c \in carFind(booking.carId) : TRUE, userId)

\* faulty variant: canceled bookings are left out
getAll_Live(tbl) ==
  LET live == {b \in tbl : b.state # "CANCELED"} IN
  {rows \in [1..Cardinality(live) -> live] :
     /\ \A i, j \in DOMAIN rows : i # j => rows[i] # rows[j]
     /\ \A i, j \in DOMAIN rows : i < j => rows[i].startDate >= rows[j].startDate}

\* BookingRepository.getAll: SELECT * FROM bookings ORDER BY start_date DESC;
\* the arrays the statement may return (rows with equal start_date come in
\* any order)
getAll(tbl) ==
  {rows \in [1..Cardinality(tbl) -> tbl] :
     /\ \A i, j \in DOMAIN rows : i # j => rows[i] # rows[j]
     /\ \A i, j \in DOMAIN rows : i < j => rows[i].startDate >= rows[j].startDate}

\* ---- calls run to completion, one after the other ------------------------
Init ==
  /\ bookings = {}
  /\ nextId = 1
  /\ now = 0
  /\ res = [op |-> "none"]
  /\ tx = [p \in Procs |-> [pc |-> "idle"]]
  /\ isolation = "READ COMMITTED"
  /\ carRows = InitialCarRows

\* no call is in progress
Idle == res.op = "none"

\* faulty variant: the row is inserted before the availability check and stays
\* when the check fails
Create_InsertFirst(data) ==
  LET err == createError(bookings, now, data)
      written == validateBookingDates(data.startDate, data.endDate, now) = OK
                   /\ carGet(data.carId) = OK
  IN
  /\ written => nextId <= MaxBookings
  /\ IF written
     THEN /\ bookings' = insert(bookings, nextId, bookingData(data))
          /\ nextId' = nextId + 1
     ELSE UNCHANGED <<bookings, nextId>>
  /\ res' = [op |-> "create", err |-> err, data |-> data,
             id |-> IF err = OK THEN nextId ELSE 0,
             calls |-> createCalls(bookings, now, data)]
  /\ UNCHANGED <<now, tx, isolation, carRows>>

Create(data) ==
  LET err == createError(bookings, now, data) IN
  /\ err = OK => nextId <= MaxBookings
  /\ IF err = OK
     THEN /\ bookings' = insert(bookings, nextId, bookingData(data))
          /\ nextId' = nextId + 1
     ELSE UNCHANGED <<bookings, nextId>>
  /\ res' = [op |-> "create", err |-> err, data |-> data,
             id |-> IF err = OK THEN nextId ELSE 0,
             calls |-> createCalls(bookings, now, data),
             opened |-> transactionsOpened,
             handles |-> handles(createCalls(bookings, now, data))]
  /\ UNCHANGED <<now, tx, isolation, carRows>>

Update(id, updates, userId) ==
  LET err == updateError(bookings, now, id, updates, userId) IN
  /\ IF err = OK
     THEN bookings' =
            update(bookings,
                   updatedBooking(CHOOSE b \in bookingFind(bookings, id) : TRUE,
                                  updates, id))
     ELSE UNCHANGED bookings
  /\ res' = [op |-> "update", err |-> err, id |-> id, updates |-> updates,
             userId |-> userId,
             calls |-> updateCalls(bookings, now, id, updates, userId),
             opened |-> transactionsOpened,
             handles |-> handles(updateCalls(bookings, now, id, updates, userId))]
  /\ UNCHANGED <<nextId, now, tx, isolation, carRows>>

Get(id, userId) ==
  LET err == getError(bookings, id, userId) IN
  /\ res' = [op |-> "get", err |-> err, id |-> id, userId |-> userId,
             booking |-> IF err = OK THEN bookingFind(bookings, id) ELSE {},
             calls |-> getCalls(bookings, id),
             opened |-> transactionsOpened,
             handles |-> handles(getCalls(bookings, id))]
  /\ UNCHANGED <<bookings, nextId, now, tx, isolation, carRows>>

GetAll ==
  /\ \E rows \in getAll(bookings) :
       res' = [op |-> "getAll", rows |-> rows,
               calls |-> <<"bookingRepository.getAll">>,
               opened |-> transactionsOpened,
               handles |-> handles(<<"bookingRepository.getAll">>)]
  /\ UNCHANGED <<bookings, nextId, now, tx, isolation, carRows>>

\* the wall clock read by `new Date()` advances
Tick ==
  /\ Idle
  /\ now < MaxNow
  /\ now' = now + 1
  /\ UNCHANGED <<bookings, nextId, res, tx, isolation, carRows>>

\* the caller receives the result (the promise settles)
Return ==
  /\ ~Idle
  /\ res' = [op |-> "none"]
  /\ UNCHANGED <<bookings, nextId, now, tx, isolation, carRows>>

\* a call starts only when the previous one has returned
Next ==
  \/ Idle /\ \E data \in CreateInputs : Create(data)
  \/ Idle /\ \E id \in BookingIdInputs, updates \in UpdateInputs, userId \in Users :
       Update(id, updates, userId)
  \/ Idle /\ \E id \in BookingIdInputs, userId \in Users : Get(id, userId)
  \/ Idle /\ GetAll
  \/ Tick
  \/ Return

Spec == Init /\ [][Next]_vars

\* ---- construction of a Booking -------------------------------------------
\* a JavaScript value given for an id: a number (v is its integer part, int
\* tells whether it is an integer) or undefined
IdValues ==
  {[kind |-> "number", int |-> TRUE, v |-> n] : n \in -1..2}
    \cup {[kind |-> "number", int |-> FALSE, v |-> 1],
          [kind |-> "undefined", int |-> FALSE, v |-> 0]}

\* a value given for the state: a member of the enum, another string, or
\* undefined
StateValues == BookingState \cup {"DONE", "undefined"}

\* BookingProperties as the constructor may receive them
BookingDataInputs ==
  [id : IdValues, carId : IdValues, renterId : IdValues, state : StateValues]

\* class-validator's @IsInt, @IsPositive and @IsEnum(BookingState)
IsInt(x) == x.kind = "number" /\ x.int
IsPositive(x) == x.kind = "number" /\ x.v > 0
IsEnum(x) == x \in BookingState

\* faulty variant: state carries no @IsEnum decorator
BookingConstraints_NoEnum(data) ==
  {k \in {"id", "carId", "renterId"} : ~(IsInt(data[k]) /\ IsPositive(data[k]))}

\* the properties of a Booking whose decorators are not met
BookingConstraints(data) ==
  {k \in {"id", "carId", "renterId"} : ~(IsInt(data[k]) /\ IsPositive(data[k]))}
    \cup {k \in {"state"} : ~IsEnum(data[k])}

\* validate(this) of src/util: throws when a decorator is not met
validateObject(violations) ==
  IF violations # {} THEN Error("ValidationError", violations) ELSE OK

\* new Booking(data): the error the constructor throws, OK when it returns
constructBooking(data) == validateObject(BookingConstraints(data))

\* an integer as a JavaScript value
Number(n) == [kind |-> "number", int |-> TRUE, v |-> n]

\* rows the repository may have returned to update
StoredBookings ==
  [id : 1..MaxBookings, carId : {c.id : c \in Cars}, renterId : Users,
   state : BookingState, startDate : {1}, endDate : {2}]

\* new Booking(data) for any data
Construct(data) ==
  /\ res' = [op |-> "construct", data |-> data, err |-> constructBooking(data),
             handed |-> FALSE]
  /\ UNCHANGED <<bookings, nextId, now, tx, isolation, carRows>>

\* update from `new Booking({ ...booking, ...updates, id })` on:
\* bookingRepository.update is called with the Booking when the constructor
\* returns
UpdateConstruct(booking, updates) ==
  LET state == spread(updates.state, booking.state)
      data == [id |-> Number(booking.id), carId |-> Number(booking.carId),
               renterId |-> Number(booking.renterId),
               state |-> IF state = {} THEN "undefined"
                         ELSE CHOOSE s \in state : TRUE]
  IN
  /\ res' = [op |-> "construct", data |-> data, err |-> constructBooking(data),
             handed |-> constructBooking(data) = OK]
  /\ UNCHANGED <<bookings, nextId, now, tx, isolation, carRows>>

NextB ==
  \/ Idle /\ \E data \in BookingDataInputs : Construct(data)
  \/ Idle /\ \E booking \in StoredBookings, updates \in UpdateInputs :
       UpdateConstruct(booking, updates)
  \/ Return

SpecB == Init /\ [][NextB]_vars

\* ---- BookingController ----------------------------------------------------
\* the authenticated callers of the requests: user 1 owns car 1, user 3 owns
\* no car
HttpUsers == {1, 3}

\* carId of a create body: 0 stands for a missing carId, 3 names no car
HttpCarIds == {0, 1, 3}

\* a date string of a body: missing, not parseable, or the string of a date
HttpDates ==
  {[kind |-> "missing", d |-> 0], [kind |-> "invalid", d |-> 0]}
    \cup {[kind |-> "date", d |-> d] : d \in 1..MaxDate}

\* the body of POST /bookings; renterId and state are what a client may add
\* (0 and "missing": not sent)
HttpCreateBodies ==
  [carId : HttpCarIds, startDate : HttpDates, endDate : HttpDates,
   renterId : {0, 2}, state : {"missing", "CONFIRMED"}]

\* the body of PATCH /bookings/:id
HttpPatchBodies ==
  [state : {"missing", "CONFIRMED", "PICKED_UP", "CANCELED"},
   startDate : HttpDates, endDate : HttpDates]

\* ids named in the path: the first booking, and one that is never assigned
HttpBookingIds == {1, MaxBookings + 1}

\* 0: the store works; 1: the first repository call of the request throws
FaultInputs == {0, 1}

\* an error of the store, thrown by a repository call
DatabaseError == Error("DatabaseError", <<"connection terminated">>)

\* the exceptions of @nestjs/common with their status
HttpException(name, status) == Error(name, <<status>>)

\* what the service call ends with when the fault-th repository call throws
withFault(err, calls, fault) ==
  IF fault >= 1 /\ fault <= Len(calls) THEN DatabaseError ELSE err

\* faulty variant: an error that is not recognised is wrapped
handleBookingErrors_Internal(error) ==
  IF error.name \in {"InvalidBookingDatesError", "InvalidBookingStateTransitionError"}
  THEN HttpException("BadRequestException", 400)
  ELSE IF error.name = "CarNotAvailableError"
  THEN HttpException("ConflictException", 409)
  ELSE IF error.name = "BookingAccessDeniedError"
  THEN HttpException("ForbiddenException", 403)
  ELSE IF error.name \in {"CarNotFoundError", "BookingNotFoundError"}
  THEN HttpException("NotFoundException", 404)
  ELSE HttpException("InternalServerErrorException", 500)

\* faulty variant: CarNotAvailableError is answered like the date errors
handleBookingErrors_NoConflict(error) ==
  IF error.name \in {"InvalidBookingDatesError", "CarNotAvailableError",
                     "InvalidBookingStateTransitionError"}
  THEN HttpException("BadRequestException", 400)
  ELSE IF error.name = "BookingAccessDeniedError"
  THEN HttpException("ForbiddenException", 403)
  ELSE IF error.name \in {"CarNotFoundError", "BookingNotFoundError"}
  THEN HttpException("NotFoundException", 404)
  ELSE error

\* handleBookingErrors: the error it throws for the error caught
handleBookingErrors(error) ==
  IF error.name = "InvalidBookingDatesError"
  THEN HttpException("BadRequestException", 400)
  ELSE IF error.name = "CarNotAvailableError"
  THEN HttpException("ConflictException", 409)
  ELSE IF error.name = "InvalidBookingStateTransitionError"
  THEN HttpException("BadRequestException", 400)
  ELSE IF error.name = "BookingAccessDeniedError"
  THEN HttpException("ForbiddenException", 403)
  ELSE IF error.name = "CarNotFoundError"
  THEN HttpException("NotFoundException", 404)
  ELSE IF error.name = "BookingNotFoundError"
  THEN HttpException("NotFoundException", 404)
  ELSE error

\* what the request ends with: the value returned, or what the catch block
\* throws for the error caught
respond(thrown) == IF thrown = OK THEN OK ELSE handleBookingErrors(thrown)

\* BookingController.create before the service is called: the
\* BadRequestException thrown for the body, OK when there is none
createBodyError(body) ==
  IF body.carId = 0
  THEN Error("BadRequestException", <<400, "carId is required">>)
  ELSE IF body.startDate.kind = "missing"
  THEN Error("BadRequestException", <<400, "startDate is required">>)
  ELSE IF body.endDate.kind = "missing"
  THEN Error("BadRequestException", <<400, "endDate is required">>)
  ELSE IF body.startDate.kind = "invalid" \/ body.endDate.kind = "invalid"
  THEN Error("BadRequestException",
             <<400, "startDate or endDate is not a valid date">>)
  ELSE IF body.startDate.d >= body.endDate.d
  THEN Error("BadRequestException", <<400, "endDate must be after startDate">>)
  ELSE OK

\* faulty variant: renterId and state are taken from the body when it has them
createData_FromBody(user, body) ==
  [carId |-> body.carId,
   renterId |-> IF body.renterId # 0 THEN body.renterId ELSE user,
   startDate |-> body.startDate.d, endDate |-> body.endDate.d,
   state |-> IF body.state # "missing" THEN body.state ELSE "PENDING"]

\* the data BookingController.create passes to the service
createData(user, body) ==
  [carId |-> body.carId, renterId |-> user, startDate |-> body.startDate.d,
   endDate |-> body.endDate.d, state |-> "PENDING"]

\* POST /bookings
HttpCreate(user, body, fault) ==
  LET data == createData(user, body)
      thrown == IF createBodyError(body) # OK THEN createBodyError(body)
                ELSE withFault(createError(bookings, now, data),
                               createCalls(bookings, now, data), fault)
      called == createBodyError(body) = OK
  IN
  /\ thrown = OK => nextId <= MaxBookings
  /\ IF thrown = OK
     THEN /\ bookings' = insert(bookings, nextId, bookingData(data))
          /\ nextId' = nextId + 1
     ELSE UNCHANGED <<bookings, nextId>>
  /\ res' = [op |-> "http", route |-> "create", user |-> user, body |-> body,
             id |-> IF thrown = OK THEN nextId ELSE 0, fault |-> fault,
             data |-> IF called THEN {data} ELSE {},
             thrown |-> thrown, response |-> respond(thrown)]
  /\ UNCHANGED <<now, tx, isolation, carRows>>

\* the key of the updates for a date of the body: set only when the string is
\* there
patchDate(date) ==
  IF date.kind = "date" THEN [present |-> TRUE, val |-> {date.d}]
  ELSE [present |-> FALSE, val |-> {}]

\* the updates BookingController.patch passes to the service: the state key is
\* always there
patchUpdates(body) ==
  [state |-> [present |-> TRUE,
              val |-> IF body.state = "missing" THEN {} ELSE {body.state}],
   startDate |-> patchDate(body.startDate),
   endDate |-> patchDate(body.endDate)]

\* BookingController.patch before the service is called
patchBodyError(body) ==
  IF body.startDate.kind = "invalid"
  THEN Error("BadRequestException", <<400, "startDate is not a valid date">>)
  ELSE IF body.endDate.kind = "invalid"
  THEN Error("BadRequestException", <<400, "endDate is not a valid date">>)
  ELSE IF body.startDate.kind = "date" /\ body.endDate.kind = "date"
          /\ body.startDate.d >= body.endDate.d
  THEN Error("BadRequestException", <<400, "endDate must be after startDate">>)
  ELSE OK

\* PATCH /bookings/:id
HttpPatch(user, id, body, fault) ==
  LET updates == patchUpdates(body)
      thrown == IF patchBodyError(body) # OK THEN patchBodyError(body)
                ELSE withFault(updateError(bookings, now, id, updates, user),
                               updateCalls(bookings, now, id, updates, user),
                               fault)
  IN
  /\ IF thrown = OK
     THEN bookings' =
            update(bookings,
                   updatedBooking(CHOOSE b \in bookingFind(bookings, id) : TRUE,
                                  updates, id))
     ELSE UNCHANGED bookings
  /\ res' = [op |-> "http", route |-> "patch", user |-> user, body |-> body,
             id |-> id, fault |-> fault, data |-> {},
             thrown |-> thrown, response |-> respond(thrown)]
  /\ UNCHANGED <<nextId, now, tx, isolation, carRows>>

\* GET /bookings/:id
HttpGetOne(user, id, fault) ==
  LET thrown == withFault(getError(bookings, id, user),
                          <<"bookingRepository.get">>, fault)
  IN
  /\ res' = [op |-> "http", route |-> "getOne", user |-> user, body |-> <<>>,
             id |-> id, fault |-> fault, data |-> {},
             thrown |-> thrown, response |-> respond(thrown)]
  /\ UNCHANGED <<bookings, nextId, now, tx, isolation, carRows>>

NextH ==
  \/ Idle /\ \E user \in HttpUsers, body \in HttpCreateBodies,
                 fault \in FaultInputs : HttpCreate(user, body, fault)
  \/ Idle /\ \E user \in HttpUsers, id \in HttpBookingIds,
                 body \in HttpPatchBodies, fault \in FaultInputs :
       HttpPatch(user, id, body, fault)
  \/ Idle /\ \E user \in HttpUsers, id \in HttpBookingIds,
                 fault \in FaultInputs : HttpGetOne(user, id, fault)
  \/ Tick
  \/ Return

SpecH == Init /\ [][NextH]_vars

\* ---- CarService.update ----------------------------------------------------
\* the updates of a car: for each key the value given, {} when the key is
\* absent
CarUpdateInputs == [state : {{}, {"LOCKED"}, {"UNLOCKED"}}, name : {{}, {"New Name"}}]

\* Object.keys(updates)
keys(updates) == {k \in DOMAIN updates : updates[k] # {}}

\* faulty variant: any booking of the car that is not CANCELED counts
isActiveRenter_AnyLive(tbl, carId, userId) ==
  \E booking \in tbl :
    /\ booking.carId = carId
    /\ booking.renterId = userId
    /\ booking.state # "CANCELED"

\* CarService.isActiveRenter over bookingRepository.getAll
isActiveRenter(tbl, carId, userId) ==
  \E booking \in tbl :
    /\ booking.carId = carId
    /\ booking.renterId = userId
    /\ booking.state = "PICKED_UP"

\* the error CarService.update ends with before the Car is constructed, OK
\* when it reaches carRepository.update
carUpdateError(tbl, carId, updates, currentUserId) ==
  IF carGet(carId) # OK THEN carGet(carId)
  ELSE
  LET car == CHOOSE c \in carFind(carId) : TRUE
      isOwner == car.ownerId = currentUserId
  IN  IF ~isOwner /\ ~isActiveRenter(tbl, carId, currentUserId)
      THEN Error("CarAccessDeniedError", <<carId>>)
      ELSE IF ~isOwner /\ \E key \in keys(updates) : key # "state"
      THEN Error("CarAccessDeniedError", <<carId>>)
      ELSE OK

\* the repository methods CarService.update calls, in order
carUpdateCalls(tbl, carId, updates, currentUserId) ==
  IF carGet(carId) # OK THEN <<"carRepository.get">>
  ELSE <<"carRepository.get", "bookingRepository.getAll">>
         \o (IF carUpdateError(tbl, carId, updates, currentUserId) = OK
             THEN <<"carRepository.update">> ELSE <<>>)

\* { ...car, ...updates, id: carId } written by CarRepository.update
updatedCar(row, updates) ==
  [k \in DOMAIN row |->
     IF updates[k] # {} THEN CHOOSE v \in updates[k] : TRUE ELSE row[k]]

CarUpdate(carId, updates, currentUserId) ==
  LET err == carUpdateError(bookings, carId, updates, currentUserId) IN
  /\ IF err = OK
     THEN carRows' = [carRows EXCEPT ![carId] = updatedCar(carRows[carId], updates)]
     ELSE UNCHANGED carRows
  /\ res' = [op |-> "carUpdate", err |-> err, carId |-> carId,
             updates |-> updates, userId |-> currentUserId,
             calls |-> carUpdateCalls(bookings, carId, updates, currentUserId)]
  /\ UNCHANGED <<bookings, nextId, now, tx, isolation>>

\* the bookings made and moved along while cars are updated: bookings of car
\* 2 by user 1, and updates that hold a state only
CarSpecCreateInputs ==
  {d \in CreateInputs :
     d.carId = 2 /\ d.state = "PENDING" /\ d.startDate < d.endDate}

CarSpecUpdateInputs ==
  {u \in UpdateInputs :
     truthy(u.state) /\ ~u.startDate.present /\ ~u.endDate.present}

NextCar ==
  \/ Idle /\ \E data \in CarSpecCreateInputs : Create(data)
  \/ Idle /\ \E id \in 1..MaxBookings, updates \in CarSpecUpdateInputs,
                 userId \in Users : Update(id, updates, userId)
  \/ Idle /\ \E carId \in CarIdInputs, updates \in CarUpdateInputs,
                 userId \in Users : CarUpdate(carId, updates, userId)
  \/ Return

SpecCar == Init /\ [][NextCar]_vars

\* ---- calls in flight at once ---------------------------------------------
\* Each call runs in one transaction of databaseConnection.transactional; a
\* step is one statement against the store together with the synchronous code
\* around it.  The statement that writes is the last of its transaction, so
\* it is taken together with the COMMIT.

\* creates issued while calls overlap: car 2, all with valid dates
ConcurrentCreateInputs ==
  {d \in CreateInputs :
     d.carId = 2 /\ d.state = "PENDING" /\ now < d.startDate
       /\ d.startDate < d.endDate}

\* updates issued while calls overlap: a state only, or an end date only
ConcurrentUpdateInputs ==
  {u \in UpdateInputs :
     /\ ~u.startDate.present
     /\ u.state.present => (truthy(u.state) /\ ~u.endDate.present)
     /\ u.endDate.present => truthy(u.endDate)
     /\ u.state.present \/ u.endDate.present}

\* the booking the concurrent updates address: the first one created
ConcurrentBookingIds == {1}

\* the callers of concurrent updates: the renter and the owner of car 2
ConcurrentUsers == {1, 2}

InitC ==
  /\ bookings = {}
  /\ nextId = 1
  /\ now = 0
  /\ res = [op |-> "none"]
  /\ tx = [p \in Procs |-> [pc |-> "idle"]]
  /\ isolation \in IsolationLevels
  /\ carRows = InitialCarRows

\* the rows a statement of p's transaction sees: its snapshot under
\* SERIALIZABLE, the committed table under READ COMMITTED
visible(p) == IF isolation = "SERIALIZABLE" THEN tx[p].snap ELSE bookings

\* the snapshot a transaction keeps from its first statement on
snapshot == IF isolation = "SERIALIZABLE" THEN bookings ELSE {}

\* the store's error for a write that cannot be serialized (SQLSTATE 40001)
SerializationFailure == Error("SerializationFailure", <<"40001">>)

\* the call ends: the transaction is over and the promise holds err
done(p, op, err) == [pc |-> "done", op |-> op, err |-> err]

\* create up to the INSERT: BEGIN, validateBookingDates, carRepository.get and
\* findOverlappingBookings
CreateCheck(p, data) ==
  LET err == createError(bookings, now, data) IN
  /\ tx[p].pc = "idle"
  /\ nextId + Cardinality({q \in Procs : tx[q].pc = "insert"}) <= MaxBookings
  /\ tx' = [tx EXCEPT ![p] =
              IF err = OK
              THEN [pc |-> "insert", op |-> "create", data |-> data,
                    snap |-> snapshot]
              ELSE done(p, "create", err)]
  /\ UNCHANGED <<bookings, nextId, now, res, isolation, carRows>>

\* bookingRepository.insert and COMMIT
CreateInsert(p) ==
  LET data == tx[p].data
      stale == findOverlappingBookings(bookings, data.carId, data.startDate,
                                       data.endDate, 0)
               # findOverlappingBookings(visible(p), data.carId,
                                         data.startDate, data.endDate, 0)
  IN
  /\ tx[p].pc = "insert"
  /\ nextId' = nextId + 1
  /\ IF isolation = "SERIALIZABLE" /\ stale
     THEN /\ UNCHANGED bookings
          /\ tx' = [tx EXCEPT ![p] = done(p, "create", SerializationFailure)]
     ELSE /\ bookings' = insert(bookings, nextId, bookingData(data))
          /\ tx' = [tx EXCEPT ![p] = done(p, "create", OK)]
  /\ UNCHANGED <<now, res, isolation, carRows>>

\* update up to its availability check: BEGIN, bookingRepository.get,
\* carRepository.get, assertBookingAccess, the transition check and
\* validateBookingDates; without dates in the payload the Booking is
\* constructed right away
UpdateGet(p, id, updates, userId) ==
  LET found == bookingFind(bookings, id)
      booking == CHOOSE b \in found : TRUE
      err == IF found = {} THEN Error("BookingNotFoundError", <<id>>)
             ELSE updateValidate(booking, now, id, updates, userId)
      datesGiven == truthy(updates.startDate) \/ truthy(updates.endDate)
      call == [op |-> "update", id |-> id, updates |-> updates]
  IN
  /\ tx[p].pc = "idle"
  /\ tx' = [tx EXCEPT ![p] =
              IF err # OK THEN done(p, "update", err)
              ELSE IF datesGiven
              THEN [pc |-> "availability", booking |-> booking,
                    snap |-> snapshot] @@ call
              ELSE IF newBooking(booking, updates) # OK
              THEN done(p, "update", newBooking(booking, updates))
              ELSE [pc |-> "write", booking |-> booking, snap |-> snapshot]
                     @@ call]
  /\ UNCHANGED <<bookings, nextId, now, res, isolation, carRows>>

\* validateCarAvailability of update, then the Booking is constructed
UpdateAvailability(p) ==
  LET t == tx[p]
      err == updateAvailability(visible(p), t.booking, t.id, t.updates)
  IN
  /\ t.pc = "availability"
  /\ tx' = [tx EXCEPT ![p] =
              IF err # OK THEN done(p, "update", err)
              ELSE IF newBooking(t.booking, t.updates) # OK
              THEN done(p, "update", newBooking(t.booking, t.updates))
              ELSE [t EXCEPT !.pc = "write"]]
  /\ UNCHANGED <<bookings, nextId, now, res, isolation, carRows>>

\* faulty variant: the write waits until no other call is about to write
UpdateWrite_Lock(p) ==
  LET t == tx[p]
      booking == updatedBooking(t.booking, t.updates, t.id)
  IN
  /\ t.pc = "write"
  /\ \A q \in Procs \ {p} : tx[q].pc # "write"
  /\ bookings' = update(bookings, booking)
  /\ tx' = [tx EXCEPT ![p] = done(p, "update", OK)]
  /\ UNCHANGED <<nextId, now, res, isolation, carRows>>

\* bookingRepository.update (ensureBookingExists, UPDATE) and COMMIT
UpdateWrite(p) ==
  LET t == tx[p]
      booking == updatedBooking(t.booking, t.updates, t.id)
      err == repositoryUpdate(visible(p), booking)
      \* the row, or the rows the availability check read, changed since the
      \* snapshot
      stale == \/ bookingFind(bookings, t.id) # {t.booking}
               \/ updateAvailability(bookings, t.booking, t.id, t.updates)
                    # updateAvailability(visible(p), t.booking, t.id, t.updates)
  IN
  /\ t.pc = "write"
  /\ IF err # OK
     THEN /\ UNCHANGED bookings
          /\ tx' = [tx EXCEPT ![p] = done(p, "update", err)]
     ELSE IF isolation = "SERIALIZABLE" /\ stale
     THEN /\ UNCHANGED bookings
          /\ tx' = [tx EXCEPT ![p] = done(p, "update", SerializationFailure)]
     ELSE /\ bookings' = update(bookings, booking)
          /\ tx' = [tx EXCEPT ![p] = done(p, "update", OK)]
  /\ UNCHANGED <<nextId, now, res, isolation, carRows>>

\* the caller receives the result of p's call
ReturnC(p) ==
  /\ tx[p].pc = "done"
  /\ tx' = [tx EXCEPT ![p] = [pc |-> "idle"]]
  /\ UNCHANGED <<bookings, nextId, now, res, isolation, carRows>>

NextC ==
  \/ \E p \in Procs, data \in ConcurrentCreateInputs : CreateCheck(p, data)
  \/ \E p \in Procs : CreateInsert(p)
  \/ \E p \in Procs, id \in ConcurrentBookingIds,
        updates \in ConcurrentUpdateInputs, userId \in ConcurrentUsers :
       UpdateGet(p, id, updates, userId)
  \/ \E p \in Procs : UpdateAvailability(p)
  \/ \E p \in Procs : UpdateWrite(p)
  \/ \E p \in Procs : ReturnC(p)

SpecC == InitC /\ [][NextC]_vars

\* ---- completion of calls in flight at once --------------------------------
\* get in its transaction: bookingRepository.get, carRepository.get and
\* assertBookingAccess; it writes nothing
GetRead(p, id, userId) ==
  /\ tx[p].pc = "idle"
  /\ tx' = [tx EXCEPT ![p] = done(p, "get", getError(bookings, id, userId))]
  /\ UNCHANGED <<bookings, nextId, now, res, isolation, carRows>>

\* getAll in its transaction: bookingRepository.getAll
GetAllRead(p) ==
  /\ tx[p].pc = "idle"
  /\ tx' = [tx EXCEPT ![p] = done(p, "getAll", OK)]
  /\ UNCHANGED <<bookings, nextId, now, res, isolation, carRows>>

NextL ==
  \/ \E p \in Procs, data \in ConcurrentCreateInputs : CreateCheck(p, data)
  \/ \E p \in Procs : CreateInsert(p)
  \/ \E p \in Procs, id \in ConcurrentBookingIds,
        updates \in ConcurrentUpdateInputs, userId \in ConcurrentUsers :
       UpdateGet(p, id, updates, userId)
  \/ \E p \in Procs : UpdateAvailability(p)
  \/ \E p \in Procs : UpdateWrite(p)
  \/ \E p \in Procs, id \in ConcurrentBookingIds, userId \in ConcurrentUsers :
       GetRead(p, id, userId)
  \/ \E p \in Procs : GetAllRead(p)
  \/ \E p \in Procs : ReturnC(p)

\* every statement a call has sent to the store completes or fails: the
\* pending step of a call in flight is eventually taken
Fairness ==
  \A p \in Procs :
    /\ WF_vars(CreateInsert(p))
    /\ WF_vars(UpdateAvailability(p))
    /\ WF_vars(UpdateWrite(p))

SpecL == InitC /\ [][NextL]_vars /\ Fairness

\* ---- BookingRepository.update while rows are removed ----------------------
\* the Booking objects handed to BookingRepository.update
RepositoryUpdateInputs ==
  {[id |-> id, carId |-> 2, renterId |-> 1, state |-> {s},
    startDate |-> {1}, endDate |-> {e}] :
     id \in BookingIdInputs, s \in {"CONFIRMED", "CANCELED"}, e \in {MaxDate}}

\* the request whose update is followed
RepositoryCallers == {1}

\* pg-promise's error when tx.one gets no row back
QueryResultError == Error("QueryResultError", <<"No data returned from the query.">>)

\* ensureBookingExists: SELECT * FROM bookings WHERE id = $(id)
EnsureBookingExists(p, booking) ==
  /\ tx[p].pc = "idle"
  /\ tx' = [tx EXCEPT ![p] =
              IF bookingFind(bookings, booking.id) = {}
              THEN [pc |-> "done", op |-> "repositoryUpdate",
                    id |-> booking.id,
                    err |-> Error("BookingNotFoundError", <<booking.id>>)]
              ELSE [pc |-> "statement", op |-> "repositoryUpdate",
                    id |-> booking.id, booking |-> booking,
                    snap |-> snapshot]]
  /\ UNCHANGED <<bookings, nextId, now, res, isolation, carRows>>

\* another transaction commits a DELETE of the row (the bookings table
\* references cars and users ON DELETE CASCADE)
RowRemoved ==
  /\ \E b \in bookings : bookings' = bookings \ {b}
  /\ UNCHANGED <<nextId, now, res, tx, isolation, carRows>>

\* tx.one(UPDATE bookings SET ... WHERE id = $(id) RETURNING *): no row is
\* left to update when it was removed after the check
UpdateStatement(p) ==
  LET t == tx[p]
      gone == bookingFind(bookings, t.id) = {}
      err == IF ~gone THEN OK
             ELSE IF isolation = "SERIALIZABLE" THEN SerializationFailure
             ELSE QueryResultError
  IN
  /\ t.pc = "statement"
  /\ bookings' = IF gone THEN bookings ELSE update(bookings, t.booking)
  /\ tx' = [tx EXCEPT ![p] = [pc |-> "done", op |-> "repositoryUpdate",
                              id |-> t.id, err |-> err]]
  /\ UNCHANGED <<nextId, now, res, isolation, carRows>>

NextD ==
  \/ Idle /\ \E data \in ConcurrentCreateInputs : Create(data)
  \/ Return
  \/ \E p \in RepositoryCallers, booking \in RepositoryUpdateInputs :
       EnsureBookingExists(p, booking)
  \/ RowRemoved
  \/ \E p \in RepositoryCallers : UpdateStatement(p)
  \/ \E p \in RepositoryCallers : ReturnC(p)

SpecD == InitC /\ [][NextD]_vars

\* ---- BookingRepositoryMock against BookingRepository ----------------------
\* the rows handed to insert of either repository
RepositoryInsertInputs ==
  {p \in [carId : {1, 2}, renterId : {1}, state : {"CONFIRMED", "CANCELED"},
          startDate : Dates, endDate : Dates] : p.startDate < p.endDate}

\* excludeBookingId?: omitted ({}), or a number
ExcludeInputs == {{}} \cup {{n} : n \in 0..(MaxBookings + 1)}

\* faulty variant: closed intervals, `<=`
mockFindOverlappingBookings_Closed(tbl, carId, startDate, endDate, excludeBookingId) ==
  { b \in tbl :
      /\ {b.id} # excludeBookingId
      /\ b.carId = carId
      /\ b.state # "CANCELED"
      /\ startDate <= b.endDate /\ b.startDate <= endDate }

\* BookingRepositoryMock.findOverlappingBookings: the filter of the array;
\* `booking.id === excludeBookingId` is false for an omitted argument
mockFindOverlappingBookings(tbl, carId, startDate, endDate, excludeBookingId) ==
  { b \in tbl :
      /\ {b.id} # excludeBookingId
      /\ b.carId = carId
      /\ b.state # "CANCELED"
      /\ startDate < b.endDate /\ b.startDate < endDate }

\* the argument as the SQL repository takes it: `excludeBookingId ? ... : ''`
\* adds the clause for a truthy number only
excludeClause(excludeBookingId) ==
  IF excludeBookingId = {} THEN 0 ELSE CHOOSE n \in excludeBookingId : TRUE

\* insert of a row: the mock numbers it with nextId++, the table with its
\* serial
RepositoryInsert(properties) ==
  /\ nextId <= MaxBookings
  /\ bookings' = insert(bookings, nextId, properties)
  /\ nextId' = nextId + 1
  /\ UNCHANGED <<now, res, tx, isolation, carRows>>

\* the same query put to both repositories over the same stored bookings
FindOverlapping(carId, startDate, endDate, excludeBookingId) ==
  /\ res' = [op |-> "findOverlappingBookings", carId |-> carId,
             startDate |-> startDate, endDate |-> endDate,
             excludeBookingId |-> excludeBookingId,
             sql |-> findOverlappingBookings(bookings, carId, startDate,
                                             endDate,
                                             excludeClause(excludeBookingId)),
             mock |-> mockFindOverlappingBookings(bookings, carId, startDate,
                                                  endDate, excludeBookingId)]
  /\ UNCHANGED <<bookings, nextId, now, tx, isolation, carRows>>

NextM ==
  \/ Idle /\ \E properties \in RepositoryInsertInputs :
       RepositoryInsert(properties)
  \/ Idle /\ \E carId \in {1, 2}, startDate \in Dates, endDate \in Dates,
               excludeBookingId \in ExcludeInputs :
       FindOverlapping(carId, startDate, endDate, excludeBookingId)
  \/ Return

SpecM == Init /\ [][NextM]_vars

\* ======================================================================
\* Properties
\* ======================================================================
\* [a,b) and [c,d) overlap iff a < d and c < b
Overlap(a, b, c, d) == a < d /\ c < b

OwnerOf(carId) == (CHOOSE c \in Cars : c.id = carId).ownerId

CarExists(carId) == \E c \in Cars : c.id = carId

\* the role of a caller with access, as update resolves it
RoleOf(b, userId) == IF OwnerOf(b.carId) = userId THEN "OWNER" ELSE "RENTER"

HasAccess(b, userId) == userId = b.renterId \/ userId = OwnerOf(b.carId)

Terminal == {"RETURNED", "CANCELED"}

\* the step is a call of create / update that has just run to completion
CreateStep == Idle /\ res'.op = "create"
UpdateStep == Idle /\ res'.op = "update"

\* the call trace holds a call of that repository method
CalledIn(calls, method) == \E i \in DOMAIN calls : calls[i] = method

\* C1: after any sequence of successful create and update calls, no two
\* stored bookings of the same car that are both not CANCELED have
\* overlapping intervals.
C1_NoOverlap ==
  \A a \in bookings, b \in bookings :
    (a.id # b.id /\ a.carId = b.carId
       /\ a.state # "CANCELED" /\ b.state # "CANCELED")
    => ~Overlap(a.startDate, a.endDate, b.startDate, b.endDate)

\* two live bookings share a car, the second one put next to the first by a
\* successful date update
C1_Witness ==
  /\ res.op = "update" /\ res.err = OK
  /\ truthy(res.updates.startDate)
  /\ \E a \in bookings, b \in bookings :
       /\ a.id = res.id /\ b.id # a.id /\ a.carId = b.carId
       /\ a.state # "CANCELED" /\ b.state # "CANCELED"
       /\ a.startDate = b.endDate

\* C2: when two creates for overlapping intervals on the same car run
\* concurrently, the overlap check and the insert of each are atomic with
\* respect to the other: a create that reaches its INSERT while a live
\* booking that overlaps its interval is already committed fails with
\* CarNotAvailableError and inserts nothing, so no two live bookings of a car
\* overlap afterwards.
C2_Committed(tbl, data) ==
  \E b \in tbl :
    /\ b.carId = data.carId /\ b.state # "CANCELED"
    /\ Overlap(b.startDate, b.endDate, data.startDate, data.endDate)

C2_AtomicCreate ==
  [][ \A p \in Procs :
        (tx[p].pc = "insert" /\ tx'[p].pc = "done")
        => /\ C2_Committed(bookings, tx[p].data)
              => /\ tx'[p].err.name = "CarNotAvailableError"
                 /\ bookings' = bookings
           /\ \A a \in bookings', b \in bookings' :
                (a.id # b.id /\ a.carId = b.carId
                   /\ a.state # "CANCELED" /\ b.state # "CANCELED")
                => ~Overlap(a.startDate, a.endDate, b.startDate, b.endDate)
    ]_vars

\* C3: when updates of the same booking run concurrently, the stored state
\* only ever changes along an edge of the transition table, taken from the
\* state the write actually replaces.
C3_TableEdge(s, t) ==
  \/ s = "PENDING" /\ t = "CONFIRMED"
  \/ s = "PENDING" /\ t = "CANCELED"
  \/ s = "CONFIRMED" /\ t = "PICKED_UP"
  \/ s = "PICKED_UP" /\ t = "RETURNED"

C3_AtomicUpdate ==
  [][ \A b \in bookings, c \in bookings' :
        (c.id = b.id /\ c.state # b.state) => C3_TableEdge(b.state, c.state)
    ]_vars

\* C11: an update by a user with access that requests the stored state itself
\* (X -> X) never fails with InvalidBookingStateTransitionError, whatever X
\* and the caller's role are; when the payload holds nothing but the state,
\* the update succeeds and the stored bookings are as before.
C11_Identity ==
  [][ UpdateStep =>
        \A b \in bookings :
          (b.id = res'.id /\ HasAccess(b, res'.userId)
             /\ res'.updates.state.val = {b.state})
          => /\ res'.err.name # "InvalidBookingStateTransitionError"
             /\ (~res'.updates.startDate.present /\ ~res'.updates.endDate.present)
                => (res'.err = OK /\ bookings' = bookings) ]_vars

\* the renter, who is not the owner, asked a CANCELED booking to be CANCELED
\* and the update succeeded
C11_Witness ==
  /\ res.op = "update" /\ res.err = OK
  /\ res.updates.state.val = {"CANCELED"}
  /\ ~res.updates.startDate.present /\ ~res.updates.endDate.present
  /\ \E b \in bookings :
       /\ b.id = res.id /\ b.state = "CANCELED"
       /\ res.userId = b.renterId /\ res.userId # OwnerOf(b.carId)

\* C12: an update whose payload holds a state and no value for startDate or
\* endDate never fails with InvalidBookingDatesError or CarNotAvailableError
\* and never queries the overlapping bookings, whatever the stored dates are.
C12_StateOnly ==
  [][ (UpdateStep /\ res'.updates.state.val # {}
         /\ res'.updates.startDate.val = {} /\ res'.updates.endDate.val = {})
      => /\ res'.err.name \notin {"InvalidBookingDatesError", "CarNotAvailableError"}
         /\ ~CalledIn(res'.calls, "bookingRepository.findOverlappingBookings")
    ]_vars

\* the owner confirmed a booking whose stored startDate is not in the future
\* any more
C12_Witness ==
  /\ res.op = "update" /\ res.err = OK
  /\ res.updates.state.val = {"CONFIRMED"}
  /\ ~res.updates.startDate.present /\ ~res.updates.endDate.present
  /\ \E b \in bookings :
       b.id = res.id /\ b.state = "CONFIRMED" /\ b.startDate <= now

\* C13: for a stored booking whose car exists, get(id, userId) returns the
\* booking iff userId is the booking's renter or the car's owner; for any
\* other user it fails with BookingAccessDeniedError and returns nothing.
C13_GetAccess ==
  res.op = "get"
  => \A b \in bookings :
       (b.id = res.id /\ CarExists(b.carId))
       => IF res.userId = b.renterId \/ res.userId = OwnerOf(b.carId)
          THEN res.err = OK /\ res.booking = {b}
          ELSE /\ res.err = Error("BookingAccessDeniedError", <<b.id>>)
               /\ res.booking = {}

\* the owner of the car, who is not the renter, got the booking
C13_Witness ==
  /\ res.op = "get" /\ res.err = OK
  /\ \E b \in res.booking :
       /\ b \in bookings
       /\ res.userId = OwnerOf(b.carId) /\ res.userId # b.renterId

\* C14: an update by a user who is neither the booking's renter nor the
\* car's owner fails with BookingAccessDeniedError whatever the payload is,
\* BookingRepository.update is not called and the stored bookings are as
\* before.
C14_UpdateDenied ==
  [][ UpdateStep =>
        \A b \in bookings :
          (b.id = res'.id /\ res'.userId # b.renterId
             /\ res'.userId # OwnerOf(b.carId))
          => /\ res'.err = Error("BookingAccessDeniedError", <<b.id>>)
             /\ ~CalledIn(res'.calls, "bookingRepository.update")
             /\ bookings' = bookings ]_vars

\* a stranger asked for the state the booking already has and was refused
C14_Witness ==
  /\ res.op = "update" /\ res.err.name = "BookingAccessDeniedError"
  /\ ~res.updates.startDate.present /\ ~res.updates.endDate.present
  /\ \E b \in bookings :
       /\ b.id = res.id /\ res.updates.state.val = {b.state}
       /\ res.userId # b.renterId /\ res.userId # OwnerOf(b.carId)

\* C15: in a successful update every field for which the payload holds no
\* value keeps its stored value, and this is so whether the key is absent or
\* present with the value undefined: the update with an undefined key succeeds
\* whenever the same update with the key left out does.
C15_Absent(updates) ==
  [k \in DOMAIN updates |->
     IF updates[k].val = {} THEN [present |-> FALSE, val |-> {}] ELSE updates[k]]

C15_KeepsUnspecified ==
  [][ UpdateStep =>
        /\ updateError(bookings, now, res'.id, C15_Absent(res'.updates),
                       res'.userId) = OK
           => res'.err = OK
        /\ res'.err = OK
           => \A b \in bookings :
                b.id = res'.id
                => \E c \in bookings' :
                     /\ c.id = b.id
                     /\ res'.updates.state.val = {} => c.state = b.state
                     /\ res'.updates.startDate.val = {}
                        => c.startDate = b.startDate
                     /\ res'.updates.endDate.val = {} => c.endDate = b.endDate
    ]_vars

\* C4: an update by a user with access that requests a state t different
\* from the stored state s succeeds only along PENDING->CONFIRMED (owner),
\* PENDING->CANCELED (owner), CONFIRMED->PICKED_UP (renter),
\* PICKED_UP->RETURNED (renter); otherwise it fails with
\* InvalidBookingStateTransitionError(id, s, t) and nothing is written.
C4_Edge(s, t, role) ==
  \/ s = "PENDING" /\ t = "CONFIRMED" /\ role = "OWNER"
  \/ s = "PENDING" /\ t = "CANCELED" /\ role = "OWNER"
  \/ s = "CONFIRMED" /\ t = "PICKED_UP" /\ role = "RENTER"
  \/ s = "PICKED_UP" /\ t = "RETURNED" /\ role = "RENTER"

C4_TransitionTable ==
  [][ UpdateStep =>
        \A b \in bookings :
          (b.id = res'.id /\ HasAccess(b, res'.userId)
             /\ truthy(res'.updates.state) /\ res'.updates.state.val # {b.state})
          => LET t == CHOOSE x \in res'.updates.state.val : TRUE
             IN  IF C4_Edge(b.state, t, RoleOf(b, res'.userId))
                 THEN res'.err.name # "InvalidBookingStateTransitionError"
                 ELSE /\ res'.err = Error("InvalidBookingStateTransitionError",
                                          <<b.id, b.state, t>>)
                      /\ bookings' = bookings ]_vars

\* the renter (not the owner) asked for PENDING -> CONFIRMED and was refused
C4_Witness ==
  /\ res.op = "update"
  /\ res.err.name = "InvalidBookingStateTransitionError"
  /\ res.updates.state.val = {"CONFIRMED"}
  /\ \E b \in bookings :
       /\ b.id = res.id /\ b.state = "PENDING"
       /\ res.userId = b.renterId /\ res.userId # OwnerOf(b.carId)

\* C5: once a booking's stored state is RETURNED or CANCELED, no update
\* changes its state.
C5_Terminal ==
  [][ \A b \in bookings :
        b.state \in Terminal
        => \E c \in bookings' : c.id = b.id /\ c.state = b.state ]_vars

\* an update asked a CANCELED booking to become CONFIRMED
C5_Witness ==
  /\ res.op = "update"
  /\ res.updates.state.val = {"CONFIRMED"}
  /\ \E b \in bookings :
       /\ b.id = res.id /\ b.state = "CANCELED"
       /\ res.userId = OwnerOf(b.carId)

\* C6: a booking persisted by create has state PENDING whatever state the
\* caller supplied, and carId, renterId, startDate, endDate are those of the
\* input.
C6_CreatePending ==
  [][ (CreateStep /\ res'.err = OK)
      => bookings' = bookings \cup
           {[id |-> res'.id, carId |-> res'.data.carId,
             renterId |-> res'.data.renterId, state |-> "PENDING",
             startDate |-> res'.data.startDate,
             endDate |-> res'.data.endDate]} ]_vars

\* a create that supplied CONFIRMED succeeded
C6_Witness ==
  /\ res.op = "create" /\ res.err = OK /\ res.data.state = "CONFIRMED"
  /\ \E b \in bookings : b.id = res.id

\* C7: create fails with InvalidBookingDatesError iff startDate >= endDate or
\* startDate <= now.  (The clock does not advance while the response is
\* pending, so `now` is the value the call read.)
C7_CreateDates ==
  res.op = "create"
  => (res.err.name = "InvalidBookingDatesError"
      <=> (res.data.startDate >= res.data.endDate \/ res.data.startDate <= now))

\* a create whose startDate equals now (and endDate is later) was rejected
C7_Witness ==
  /\ res.op = "create"
  /\ res.data.startDate = now /\ res.data.endDate > now
  /\ res.err.name = "InvalidBookingDatesError"

\* C8: every stored booking satisfies startDate < endDate.
C8_DatesOrdered == \A b \in bookings : b.startDate < b.endDate

\* a successful update supplied only one of the two dates
C8_Witness ==
  /\ res.op = "update" /\ res.err = OK
  /\ truthy(res.updates.endDate) /\ ~res.updates.startDate.present
  /\ \E b \in bookings : b.id = res.id /\ res.updates.endDate.val = {b.endDate}

\* C9: a create with valid dates on an existing car fails with
\* CarNotAvailableError(carId, startDate, endDate) iff some stored booking of
\* that car is not CANCELED and has start < candidate end and
\* end > candidate start; when it fails nothing is inserted.
C9_Conflict(tbl, data) ==
  \E b \in tbl :
    /\ b.carId = data.carId /\ b.state # "CANCELED"
    /\ b.startDate < data.endDate /\ b.endDate > data.startDate

C9_ValidOnCar(data, clock) ==
  /\ data.startDate < data.endDate /\ data.startDate > clock
  /\ CarExists(data.carId)

C9_CreateAvailability ==
  [][ (CreateStep /\ C9_ValidOnCar(res'.data, now))
      => /\ res'.err.name = "CarNotAvailableError" <=> C9_Conflict(bookings, res'.data)
         /\ res'.err.name = "CarNotAvailableError"
            => /\ res'.err.info = <<res'.data.carId, res'.data.startDate,
                                    res'.data.endDate>>
               /\ bookings' = bookings /\ nextId' = nextId ]_vars

\* a create was refused because of a stored booking, while a CANCELED booking
\* of the same car also overlaps the candidate
C9_Witness ==
  /\ res.op = "create" /\ res.err.name = "CarNotAvailableError"
  /\ \E b \in bookings :
       /\ b.carId = res.data.carId /\ b.state = "CANCELED"
       /\ Overlap(b.startDate, b.endDate, res.data.startDate, res.data.endDate)

\* C10: a create with valid dates whose interval touches a stored booking of
\* the same car (start = A.end or end = A.start) and overlaps no live booking
\* of that car succeeds.
C10_Adjacent ==
  [][ (CreateStep /\ C9_ValidOnCar(res'.data, now)
         /\ (\E a \in bookings :
               /\ a.carId = res'.data.carId
               /\ (a.endDate = res'.data.startDate
                   \/ a.startDate = res'.data.endDate))
         /\ ~C9_Conflict(bookings, res'.data))
      => /\ res'.err = OK
         /\ \E b \in bookings' \ bookings : b.id = res'.id ]_vars

\* a create starting exactly at the end of a live booking of the car succeeded
C10_Witness ==
  /\ res.op = "create" /\ res.err = OK
  /\ \E a \in bookings, b \in bookings :
       /\ b.id = res.id /\ a.id # b.id /\ a.carId = b.carId
       /\ a.state # "CANCELED" /\ a.endDate = b.startDate

\* the effective value of a date: that of the payload, else the stored one
C16_Effective(key, stored) ==
  IF key.val # {} THEN CHOOSE d \in key.val : TRUE ELSE stored

\* the payload holds no state, the stored state, or a state the caller may
\* move the booking to
C16_StatePasses(b, updates, userId) ==
  \/ updates.state.val = {}
  \/ updates.state.val = {b.state}
  \/ \E t \in updates.state.val : C4_Edge(b.state, t, RoleOf(b, userId))

\* C16 as stated: an update by a user with access whose payload holds a
\* startDate and/or an endDate fails with InvalidBookingDatesError iff the
\* effective start >= the effective end or the effective start <= now, and
\* then BookingRepository.update is not called.
C16_UpdateDatesAsStated ==
  [][ UpdateStep =>
        \A b \in bookings :
          (b.id = res'.id /\ HasAccess(b, res'.userId)
             /\ (res'.updates.startDate.val # {} \/ res'.updates.endDate.val # {}))
          => LET s == C16_Effective(res'.updates.startDate, b.startDate)
                 e == C16_Effective(res'.updates.endDate, b.endDate)
             IN  /\ res'.err.name = "InvalidBookingDatesError"
                    <=> (s >= e \/ s <= now)
                 /\ res'.err.name = "InvalidBookingDatesError"
                    => ~CalledIn(res'.calls, "bookingRepository.update") ]_vars

\* C16, amended: the same, for a payload whose state (if it holds one) passes
\* the transition check, which runs before the dates are looked at.
C16_UpdateDates ==
  [][ UpdateStep =>
        \A b \in bookings :
          (b.id = res'.id /\ HasAccess(b, res'.userId)
             /\ C16_StatePasses(b, res'.updates, res'.userId)
             /\ (res'.updates.startDate.val # {} \/ res'.updates.endDate.val # {}))
          => LET s == C16_Effective(res'.updates.startDate, b.startDate)
                 e == C16_Effective(res'.updates.endDate, b.endDate)
             IN  /\ res'.err.name = "InvalidBookingDatesError"
                    <=> (s >= e \/ s <= now)
                 /\ res'.err.name = "InvalidBookingDatesError"
                    => /\ ~CalledIn(res'.calls, "bookingRepository.update")
                       /\ bookings' = bookings ]_vars

\* an update that held only an endDate, not after the stored startDate (which
\* is still in the future), was refused
C16_Witness ==
  /\ res.op = "update" /\ res.err.name = "InvalidBookingDatesError"
  /\ ~res.updates.startDate.present /\ ~res.updates.state.present
  /\ \E b \in bookings :
       /\ b.id = res.id /\ b.startDate > now
       /\ \E e \in res.updates.endDate.val : e <= b.startDate

\* C17: an update of the dates that reaches the availability check (caller
\* with access, state check passed, effective interval valid) fails with
\* CarNotAvailableError iff a non-CANCELED booking of the same car other than
\* the booking itself overlaps the effective interval, and then the stored
\* bookings are as before; an overlap with the booking's own stored interval
\* does not count, and the update of a payload without undefined keys
\* succeeds.
C17_OtherOverlaps(b, s, e) ==
  \E o \in bookings :
    /\ o.id # b.id /\ o.carId = b.carId /\ o.state # "CANCELED"
    /\ Overlap(o.startDate, o.endDate, s, e)

C17_ExcludesSelf ==
  [][ UpdateStep =>
        \A b \in bookings :
          LET s == C16_Effective(res'.updates.startDate, b.startDate)
              e == C16_Effective(res'.updates.endDate, b.endDate)
          IN
          (b.id = res'.id /\ HasAccess(b, res'.userId)
             /\ C16_StatePasses(b, res'.updates, res'.userId)
             /\ (res'.updates.startDate.val # {} \/ res'.updates.endDate.val # {})
             /\ s < e /\ s > now)
          => /\ res'.err.name = "CarNotAvailableError" <=> C17_OtherOverlaps(b, s, e)
             /\ res'.err.name = "CarNotAvailableError"
                => /\ res'.err.info = <<b.carId, s, e>>
                   /\ bookings' = bookings
             /\ (~C17_OtherOverlaps(b, s, e)
                   /\ \A k \in DOMAIN res'.updates :
                        res'.updates[k].present => res'.updates[k].val # {})
                => /\ res'.err = OK
                   /\ \E c \in bookings' :
                        c.id = b.id /\ c.startDate = s /\ c.endDate = e ]_vars

\* the end of a live booking was moved and its start kept, so the new interval
\* overlaps the one stored before, while the car has another live booking
C17_Witness ==
  /\ res.op = "update" /\ res.err = OK
  /\ ~res.updates.startDate.present /\ res.updates.endDate.val # {}
  /\ \E b \in bookings, o \in bookings :
       /\ b.id = res.id /\ b.state # "CANCELED"
       /\ res.updates.endDate.val = {b.endDate}
       /\ o.id # b.id /\ o.carId = b.carId /\ o.state # "CANCELED"

\* C18: whenever create or update fails with a domain error, the set of stored
\* bookings and every field of every stored booking are as before the call.
C18_DomainErrors ==
  {"InvalidBookingDatesError", "CarNotFoundError", "BookingNotFoundError",
   "CarNotAvailableError", "BookingAccessDeniedError",
   "InvalidBookingStateTransitionError"}

C18_NoPartialWrite ==
  [][ ((CreateStep \/ UpdateStep) /\ res'.err.name \in C18_DomainErrors)
      => bookings' = bookings ]_vars

\* a create was refused because of a CONFIRMED booking of the car
C18_Witness ==
  /\ res.op = "create" /\ res.err.name = "CarNotAvailableError"
  /\ \E b \in bookings :
       /\ b.carId = res.data.carId /\ b.state = "CONFIRMED"
       /\ Overlap(b.startDate, b.endDate, res.data.startDate, res.data.endDate)

\* C19: create checks the dates, then the car, then the availability: with
\* invalid dates it fails with InvalidBookingDatesError and no repository is
\* called; with valid dates and a car that does not exist it fails with
\* CarNotFoundError after the car lookup alone, without the overlap query; in
\* neither case is insert called.
C19_CreateOrder ==
  res.op = "create"
  => IF res.data.startDate >= res.data.endDate \/ res.data.startDate <= now
     THEN /\ res.err.name = "InvalidBookingDatesError"
          /\ res.calls = <<>>
     ELSE ~CarExists(res.data.carId)
          => /\ res.err = Error("CarNotFoundError", <<res.data.carId>>)
             /\ res.calls = <<"carRepository.get">>

\* a create with invalid dates for a car that does not exist was refused for
\* its dates
C19_Witness ==
  /\ res.op = "create" /\ res.err.name = "InvalidBookingDatesError"
  /\ ~CarExists(res.data.carId)
  /\ res.calls = <<>>

\* C20: getAll returns exactly the stored bookings, each once, with no
\* filtering by renter or owner.
C20_GetAll ==
  res.op = "getAll"
  => /\ {res.rows[i] : i \in DOMAIN res.rows} = bookings
     /\ Len(res.rows) = Cardinality(bookings)

\* getAll returned two bookings of cars with different owners, one of them
\* CANCELED
C20_Witness ==
  /\ res.op = "getAll" /\ Len(res.rows) = 2
  /\ OwnerOf(res.rows[1].carId) # OwnerOf(res.rows[2].carId)
  /\ \E i \in DOMAIN res.rows : res.rows[i].state = "CANCELED"

\* C21: a create with valid dates on an existing car succeeds or fails exactly
\* as it would if only that car's bookings were stored: bookings of other
\* cars, also those of the same renter, have no influence.
C21_SameCar(carId) == {b \in bookings : b.carId = carId}

C21_CarsIndependent ==
  [][ (CreateStep /\ C9_ValidOnCar(res'.data, now))
      => /\ res'.err = createError(C21_SameCar(res'.data.carId), now, res'.data)
         /\ (\A b \in C21_SameCar(res'.data.carId) :
               b.state = "CANCELED"
               \/ ~Overlap(b.startDate, b.endDate,
                           res'.data.startDate, res'.data.endDate))
            => res'.err = OK ]_vars

\* the renter of a live booking of one car booked another car for an interval
\* that overlaps it
C21_Witness ==
  /\ res.op = "create" /\ res.err = OK
  /\ \E a \in bookings, b \in bookings :
       /\ b.id = res.id /\ a.carId # b.carId /\ a.renterId = b.renterId
       /\ a.state # "CANCELED"
       /\ Overlap(a.startDate, a.endDate, b.startDate, b.endDate)

\* C22: constructing a Booking throws iff id, carId or renterId is not a
\* positive integer or state is not one of the five states; a Booking that
\* update hands to the repository therefore has one of the five states.
C22_PositiveInteger(x) == x.kind = "number" /\ x.int /\ x.v >= 1

C22_Constructor ==
  res.op = "construct"
  => /\ res.err # OK
        <=> \/ ~C22_PositiveInteger(res.data.id)
            \/ ~C22_PositiveInteger(res.data.carId)
            \/ ~C22_PositiveInteger(res.data.renterId)
            \/ res.data.state \notin
                 {"PENDING", "CONFIRMED", "PICKED_UP", "RETURNED", "CANCELED"}
     /\ res.handed
        => res.data.state \in
             {"PENDING", "CONFIRMED", "PICKED_UP", "RETURNED", "CANCELED"}

\* update built a Booking from a payload whose state key is undefined; the
\* constructor threw and nothing was handed to the repository
C22_Witness ==
  /\ res.op = "construct" /\ res.err # OK /\ ~res.handed
  /\ res.data.state = "undefined"
  /\ C22_PositiveInteger(res.data.id) /\ C22_PositiveInteger(res.data.carId)
  /\ C22_PositiveInteger(res.data.renterId)

\* C23: an error that is not a domain error (a failure of the store thrown by
\* a repository call, an exception of the controller itself) leaves the
\* service and the controller's error handler as it is: the caller receives
\* that same error.
C23_Propagates ==
  res.op = "http"
  => /\ (res.thrown # OK /\ res.thrown.name \notin C18_DomainErrors)
        => res.response = res.thrown
     /\ res.response.name = "DatabaseError" => res.fault # 0

\* the first repository call of a PATCH failed and the request ended with the
\* error of the store
C23_Witness ==
  /\ res.op = "http" /\ res.route = "patch" /\ res.fault = 1
  /\ res.thrown.name = "DatabaseError"
  /\ res.response = res.thrown

\* C24: getOne, create and patch answer each domain error of the service
\* with one HTTP error: InvalidBookingDatesError and
\* InvalidBookingStateTransitionError with 400 BadRequest,
\* CarNotAvailableError with 409 Conflict, BookingAccessDeniedError with 403
\* Forbidden, CarNotFoundError and BookingNotFoundError with 404 NotFound.
C24_Expected(name) ==
  CASE name = "InvalidBookingDatesError" -> <<"BadRequestException", 400>>
    [] name = "InvalidBookingStateTransitionError" -> <<"BadRequestException", 400>>
    [] name = "CarNotAvailableError" -> <<"ConflictException", 409>>
    [] name = "BookingAccessDeniedError" -> <<"ForbiddenException", 403>>
    [] name = "CarNotFoundError" -> <<"NotFoundException", 404>>
    [] name = "BookingNotFoundError" -> <<"NotFoundException", 404>>

C25_RenterIsCaller ==
  (res.op = "http" /\ res.route = "create")
  => /\ \A d \in res.data : d.renterId = res.user /\ d.state = "PENDING"
     /\ res.response = OK
        => \E b \in bookings :
             b.id = res.id /\ b.renterId = res.user /\ b.state = "PENDING"

\* a body that named another renter and the state CONFIRMED created a booking
C25_Witness ==
  /\ res.op = "http" /\ res.route = "create" /\ res.response = OK
  /\ res.body.renterId # 0 /\ res.body.renterId # res.user
  /\ res.body.state = "CONFIRMED"
  /\ \E b \in bookings : b.id = res.id

\* C26: CarService.update of an existing car by a user who is not its owner
\* gets past the access checks only if that user is the renter of a PICKED_UP
\* booking of the car and the updates hold no key other than state; in every
\* other case it fails with CarAccessDeniedError, carRepository.update is not
\* called and the car is as before.
C26_ActiveRenter ==
  [][ (Idle /\ res'.op = "carUpdate" /\ CarExists(res'.carId)
         /\ res'.userId # OwnerOf(res'.carId))
      => IF /\ \E b \in bookings :
                  /\ b.carId = res'.carId /\ b.renterId = res'.userId
                  /\ b.state = "PICKED_UP"
            /\ res'.updates.name = {}
         THEN /\ res'.err = OK
              /\ CalledIn(res'.calls, "carRepository.update")
         ELSE /\ res'.err = Error("CarAccessDeniedError", <<res'.carId>>)
              /\ ~CalledIn(res'.calls, "carRepository.update")
              /\ carRows' = carRows ]_vars

\* the renter of a RETURNED booking asked for a state change of the car and
\* was refused
C26_Witness ==
  /\ res.op = "carUpdate" /\ res.err.name = "CarAccessDeniedError"
  /\ res.updates.state # {} /\ res.updates.name = {}
  /\ res.userId # OwnerOf(res.carId)
  /\ \E b \in bookings :
       b.carId = res.carId /\ b.renterId = res.userId /\ b.state = "RETURNED"

\* C27: when several failure conditions hold at once for an update, the error
\* is that of the first step that fails: BookingNotFoundError, then
\* CarNotFoundError, then BookingAccessDeniedError, then
\* InvalidBookingStateTransitionError, then InvalidBookingDatesError, then
\* CarNotAvailableError.
C27_DatesGiven(updates) == updates.startDate.val # {} \/ updates.endDate.val # {}

C27_Expected(b, updates, userId) ==
  LET s == C16_Effective(updates.startDate, b.startDate)
      e == C16_Effective(updates.endDate, b.endDate)
  IN  IF ~CarExists(b.carId) THEN "CarNotFoundError"
      ELSE IF ~HasAccess(b, userId) THEN "BookingAccessDeniedError"
      ELSE IF ~C16_StatePasses(b, updates, userId)
      THEN "InvalidBookingStateTransitionError"
      ELSE IF C27_DatesGiven(updates) /\ (s >= e \/ s <= now)
      THEN "InvalidBookingDatesError"
      ELSE IF C27_DatesGiven(updates) /\ C17_OtherOverlaps(b, s, e)
      THEN "CarNotAvailableError"
      ELSE "none"

C27_ErrorOrder ==
  [][ UpdateStep =>
        IF \A b \in bookings : b.id # res'.id
        THEN res'.err.name = "BookingNotFoundError"
        ELSE \A b \in bookings :
               b.id = res'.id
               => IF C27_Expected(b, res'.updates, res'.userId) = "none"
                  THEN res'.err.name \notin C18_DomainErrors
                  ELSE res'.err.name
                         = C27_Expected(b, res'.updates, res'.userId) ]_vars

\* a payload with an illegal state change and an endDate before the startDate
\* was refused for the state change
C27_Witness ==
  /\ res.op = "update"
  /\ res.err.name = "InvalidBookingStateTransitionError"
  /\ \E s \in res.updates.startDate.val, e \in res.updates.endDate.val : s >= e

\* C28: canceling frees the slot: a create, or a date update of another
\* booking, on the same car for a valid interval that overlaps CANCELED
\* bookings only succeeds.
C28_CanceledOnly(id, carId, s, e) ==
  /\ \E c \in bookings :
       /\ c.id # id /\ c.carId = carId /\ c.state = "CANCELED"
       /\ Overlap(c.startDate, c.endDate, s, e)
  /\ \A o \in bookings :
       (o.id # id /\ o.carId = carId /\ o.state # "CANCELED")
       => ~Overlap(o.startDate, o.endDate, s, e)

C28_CancelFrees ==
  [][ /\ (CreateStep /\ C9_ValidOnCar(res'.data, now)
           /\ C28_CanceledOnly(0, res'.data.carId, res'.data.startDate,
                               res'.data.endDate))
         => /\ res'.err = OK
            /\ \E b \in bookings' \ bookings : b.id = res'.id
      /\ UpdateStep
         => \A b \in bookings :
              LET s == C16_Effective(res'.updates.startDate, b.startDate)
                  e == C16_Effective(res'.updates.endDate, b.endDate)
              IN
              (b.id = res'.id /\ HasAccess(b, res'.userId)
                 /\ ~res'.updates.state.present
                 /\ C27_DatesGiven(res'.updates)
                 /\ (\A k \in {"startDate", "endDate"} :
                       res'.updates[k].present => res'.updates[k].val # {})
                 /\ s < e /\ s > now
                 /\ C28_CanceledOnly(b.id, b.carId, s, e))
              => /\ res'.err = OK
                 /\ \E c \in bookings' :
                      c.id = b.id /\ c.startDate = s /\ c.endDate = e
    ]_vars

\* the dates of a live booking were moved onto the interval of a CANCELED
\* booking of the same car
C28_Witness ==
  /\ res.op = "update" /\ res.err = OK
  /\ res.updates.startDate.val # {} \/ res.updates.endDate.val # {}
  /\ \E b \in bookings, c \in bookings :
       /\ b.id = res.id /\ c.id # b.id /\ c.carId = b.carId
       /\ b.state # "CANCELED" /\ c.state = "CANCELED"
       /\ Overlap(b.startDate, b.endDate, c.startDate, c.endDate)

\* C29: BookingRepository.update on a booking whose row no longer exists
\* fails with BookingNotFoundError and writes nothing, also when the row is
\* removed between the existence check and the UPDATE statement.
C29_RowGone ==
  [][ \A p \in Procs :
        (tx[p].pc \in {"idle", "statement"} /\ tx'[p].pc = "done"
           /\ tx'[p].op = "repositoryUpdate"
           /\ \A b \in bookings : b.id # tx'[p].id)
        => /\ tx'[p].err = Error("BookingNotFoundError", <<tx'[p].id>>)
           /\ bookings' = bookings ]_vars

C31_Count(calls, method) ==
  Cardinality({i \in DOMAIN calls : calls[i] = method})

C32_InFlight(p) == tx[p].pc \in {"insert", "availability", "write"}

\* C32: every call in flight eventually completes, with a result or an error,
\* whatever the other calls do, provided each statement sent to the store
\* completes or fails.
C32_Completes ==
  \A p \in Procs : C32_InFlight(p) ~> tx[p].pc = "done"

\* both calls are in flight at once, each with its write still to come
C32_Witness ==
  /\ tx[1].pc = "write" /\ tx[2].pc = "write"

\* the payload of an update that names a state and nothing else
C33_StateOnly(s) ==
  [state |-> [present |-> TRUE, val |-> {s}],
   startDate |-> [present |-> FALSE, val |-> {}],
   endDate |-> [present |-> FALSE, val |-> {}]]

\* C33: every stored booking in PENDING, CONFIRMED or PICKED_UP can still be
\* advanced: some user with access to it has an update that changes its
\* state and is permitted, also when its renter is the owner of the car.
C33_CanAdvance ==
  \A b \in bookings :
    b.state \notin Terminal
    => \E userId \in Users, s \in BookingState \ {b.state} :
         /\ HasAccess(b, userId)
         /\ updateError(bookings, now, b.id, C33_StateOnly(s), userId) = OK

\* the field of the row is as committed before the write unless the payload
\* names it
C34_Kept(key, before, after) == key.present \/ after = before

\* C34: when a state-only update and a dates-only update of one booking run
\* at once and both succeed, neither write puts back the stale value it read
\* for the field the other has changed: a successful write leaves every
\* field its payload does not name as it is committed at that moment.
C34_BothEffects ==
  [][ \A p \in Procs :
        (tx[p].pc = "write" /\ tx'[p].pc = "done" /\ tx'[p].err = OK)
        => \A b \in bookings, c \in bookings' :
             (b.id = tx[p].id /\ c.id = tx[p].id)
             => /\ C34_Kept(tx[p].updates.state, b.state, c.state)
                /\ C34_Kept(tx[p].updates.startDate, b.startDate, c.startDate)
                /\ C34_Kept(tx[p].updates.endDate, b.endDate, c.endDate) ]_vars

\* C35: a successful update of booking id changes at most the state,
\* startDate and endDate of that booking: its id, carId and renterId and
\* every field of every other stored booking are unchanged.
C35_UpdateFrame ==
  [][ (UpdateStep /\ res'.err = OK)
      => /\ Cardinality(bookings') = Cardinality(bookings)
         /\ nextId' = nextId
         /\ \A b \in bookings :
              IF b.id = res'.id
              THEN \E c \in bookings' :
                     /\ c.id = b.id /\ c.carId = b.carId
                     /\ c.renterId = b.renterId
              ELSE b \in bookings' ]_vars

\* the end date of booking 1 was changed while another booking of the same
\* car is stored
C35_Witness ==
  /\ res.op = "update" /\ res.err = OK /\ res.id = 1
  /\ truthy(res.updates.endDate)
  /\ \E b \in bookings, o \in bookings :
       /\ b.id = 1 /\ o.id = 2 /\ o.carId = b.carId
       /\ res.updates.endDate.val = {b.endDate}

\* C36: every successful create adds exactly one booking, whose id is a
\* positive integer that no booking stored before has, and leaves the
\* bookings stored before unchanged; ids are unique in every state.
C36_FreshId ==
  [][ /\ (CreateStep /\ res'.err = OK)
        => /\ bookings \subseteq bookings'
           /\ Cardinality(bookings') = Cardinality(bookings) + 1
           /\ \A c \in bookings' \ bookings :
                /\ c.id \in Nat \ {0}
                /\ c.id = res'.id
                /\ \A b \in bookings : b.id # c.id
      /\ \A a \in bookings', b \in bookings' : a.id = b.id => a = b ]_vars

\* a second booking was created next to the first
C36_Witness ==
  /\ res.op = "create" /\ res.err = OK /\ res.id = 2
  /\ \E a \in bookings, b \in bookings : a.id = 1 /\ b.id = 2

\* C37: at any time at most one booking of a car is in state PICKED_UP.
C37_OnePickedUp ==
  \A a \in bookings, b \in bookings :
    (a.carId = b.carId /\ a.state = "PICKED_UP" /\ b.state = "PICKED_UP")
    => a.id = b.id

\* C38: once a booking is RETURNED or CANCELED, no successful update changes
\* its startDate or endDate.
C38_TerminalFrozen ==
  [][ (UpdateStep /\ res'.err = OK)
      => \A b \in bookings, c \in bookings' :
           (b.id = res'.id /\ c.id = b.id /\ b.state \in Terminal)
           => c.startDate = b.startDate /\ c.endDate = b.endDate ]_vars

\* C39: over the same stored bookings and for every carId, startDate, endDate
\* and excludeBookingId, the mock and the SQL repository select the same set
\* of bookings: same car, state not CANCELED, start before the end asked
\* for, end after the start asked for, and an id other than excludeBookingId
\* when one is given.
C39_SameSelection ==
  res.op = "findOverlappingBookings"
  => /\ res.mock = res.sql
     /\ res.sql = { b \in bookings :
                      /\ b.carId = res.carId
                      /\ b.state # "CANCELED"
                      /\ b.startDate < res.endDate
                      /\ b.endDate > res.startDate
                      /\ b.id \notin res.excludeBookingId }

\* a query that touches the end of one booking and overlaps another of the
\* same car, the latter excluded by its id
C39_Witness ==
  /\ res.op = "findOverlappingBookings"
  /\ res.sql = {} /\ res.excludeBookingId # {}
  /\ \E a \in bookings, b \in bookings :
       /\ a.carId = res.carId /\ b.carId = res.carId
       /\ a.state = "CONFIRMED" /\ b.state = "CONFIRMED"
       /\ a.endDate = res.startDate
       /\ {b.id} = res.excludeBookingId
       /\ Overlap(b.startDate, b.endDate, res.startDate, res.endDate)
====
